---- MODULE Spec2Model ----
(***************************************************************************)
(* Model of backend/services/cache_service.py (CacheService): a dict of    *)
(* entries {value, expires_at, created_at} guarded by one threading.RLock, *)
(* used by several request threads, with time.time() as an external clock. *)
(*                                                                         *)
(* Time is counted in ticks, TicksPerSec ticks to the second, so that      *)
(* sub-second instants exist and int() really truncates.                   *)
(* Every method body runs between acquiring and releasing the lock.  A     *)
(* body that reads time.time() once is one step; set reads it twice        *)
(* (lines 55 and 59) and is two steps, the clock may advance in between.   *)
(***************************************************************************)
EXTENDS Integers, FiniteSets, Sequences, TLC

\* ---------------------------------------------------------------- bounds
MaxClock == 3
TicksPerSec == 2

Threads == {"T1", "T2"}
Keys == {"k1", "k2"}
TTLs == {1, 60}
NoThread == "none"
NoKey == ""

\* ------------------------------------------------------------ Python values
\* A Python object, as a record of one shape so that any two can be compared.
NoStats == [total_entries |-> 0, active_entries |-> 0, expired_entries |-> 0,
            cache_keys |-> {}]
PyNone == [kind |-> "None", s |-> "", n |-> 0, b |-> FALSE, d |-> NoStats]
PyStr(x) == [kind |-> "str", s |-> x, n |-> 0, b |-> FALSE, d |-> NoStats]
PyInt(i) == [kind |-> "int", s |-> "", n |-> i, b |-> FALSE, d |-> NoStats]
PyBool(x) == [kind |-> "bool", s |-> "", n |-> 0, b |-> x, d |-> NoStats]
PyDict(x) == [kind |-> "dict", s |-> "", n |-> 0, b |-> FALSE, d |-> x]

\* The values callers store: value is typed Any, so None is one of them.
Values == {PyNone, PyStr("v1"), PyStr("v2")}

\* --------------------------------------------------------- Python objects
\* value is stored and returned by reference (lines 57 and 43): a mutable
\* value is an object of the heap, which its creator keeps a reference to.
Objects == {"o1", "o2"}
Contents == {"c0", "c1"}
PyRef(o) == [kind |-> "ref", s |-> o, n |-> 0, b |-> FALSE, d |-> NoStats]
Refs == {PyRef(o) : o \in Objects}

\* What a caller reads in the object x it holds.
Deref(h, x) == IF x.kind = "ref" THEN h[x.s] ELSE x.kind

\* ---------------------------------------------------------------- strings
\* A str is the sequence of its characters.
Lower(s) == [i \in 1..Len(s) |-> IF s[i] = "A" THEN "a"
                                 ELSE IF s[i] = "B" THEN "b"
                                 ELSE s[i]]

RECURSIVE LStrip(_)
LStrip(s) == IF s # <<>> /\ Head(s) = " " THEN LStrip(Tail(s)) ELSE s

RECURSIVE RStrip(_)
RStrip(s) == IF s # <<>> /\ s[Len(s)] = " "
             THEN RStrip(SubSeq(s, 1, Len(s) - 1))
             ELSE s

\* str.strip()
Strip(s) == RStrip(LStrip(s))

Metric == <<"m", "e", "t", "r", "i", "c">>

\* A message is the sequence of its words; a phrase is in a message when its
\* words are, next to each other.
Contains(msg, phrase) ==
    \E i \in 1..Len(msg) : /\ i + Len(phrase) - 1 <= Len(msg)
                           /\ SubSeq(msg, i, i + Len(phrase) - 1) = phrase

\* message.lower()
LowerWords(msg) == [i \in 1..Len(msg) |-> IF msg[i] = "City" THEN "city"
                                          ELSE IF msg[i] = "Invalid" THEN "invalid"
                                          ELSE IF msg[i] = "Please" THEN "please"
                                          ELSE msg[i]]

RequiredMsg == <<"City", "name", "is", "required">>
InvalidMsg == <<"Invalid", "city", "name.", "Please", "provide", "a", "valid",
                "city", "name.">>
InternalMsg == <<"Internal", "server", "error.", "Please", "try", "again",
                 "later.">>
NoCachedMsg == <<"No", "cached", "data", "found", "for", "this", "city">>
NotFoundMsg == <<"City", "not", "found.", "Please", "check", "the", "spelling",
                 "and", "try", "again.">>

\* ------------------------------------------------------------------- JSON
\* A member of the request body: a string, a value that is no string, or
\* no member at all.
JStr(s) == [kind |-> "str", chars |-> s]
JNumber == [kind |-> "number", chars |-> <<>>]
JAbsent == [kind |-> "absent", chars |-> <<>>]

\* A response body: the weather of a city in some units as the upstream
\* reported it at the instant at, or an error with its message.
Weather(city, units, now) ==
    [status |-> "success", message |-> <<>>, city |-> Lower(city),
     units |-> units, at |-> now]

ErrorBody(msg) ==
    [status |-> "error", message |-> msg, city |-> <<>>, units |-> <<>>, at |-> 0]

\* The handler thread between two requests.
WebThread == "T1"
NoBody == [city |-> JAbsent, units |-> JAbsent]
WebIdle == [pc |-> "idle", route |-> "none", body |-> NoBody, city |-> <<>>,
            units |-> <<>>, cache_key |-> <<>>, cached_data |-> PyNone,
            weather_data |-> PyNone, exp |-> 0, status |-> 0, resp |-> PyNone,
            gets |-> 0, calls |-> 0, sets |-> 0]

\* ttl is given in seconds; the clock counts ticks.
Seconds(n) == n * TicksPerSec

\* Python's int() on a duration measured in ticks: whole seconds, truncated
\* towards zero.
int(x) == IF x >= 0 THEN x \div TicksPerSec ELSE -((-x) \div TicksPerSec)

VARIABLES cache, lock, clock, pc, op, key, val, ttl, exp, res, t1, hist, seen,
          heap, web, peer

vars == <<cache, lock, clock, pc, op, key, val, ttl, exp, res, t1, hist, seen,
          heap, web, peer>>

\* hist is a history variable: for each key, the arguments of the set call
\* that was the last operation on the key, if the last one was a set.
\* at is the instant of the call (its first reading of the clock), and
\* prevShort tells whether that set overwrote a stored entry that was due to
\* expire within one second of the call.  trues counts the delete calls that
\* returned True since the last set on the key, where delete is modelled
\* statement by statement (DeleteRemove).
NoHist == [fresh |-> FALSE, value |-> PyNone, ttl |-> 0, at |-> 0,
           prevShort |-> FALSE, trues |-> 0]

\* seen is a history variable: for each thread, how many entries the store
\* held, and how many of them had expired, when the thread's last operation
\* ran.
NoneSeen == [total |-> 0, expired |-> 0]

Seen == [total |-> Cardinality(DOMAIN cache),
         expired |-> Cardinality({k \in DOMAIN cache : clock > cache[k].expires_at})]

\* ------------------------------------------------------------------ dict
\* del self._cache[key]
Del(c, k) == [x \in (DOMAIN c) \ {k} |-> c[x]]

\* A set that merges into the stored entry instead of replacing it.
PutMerge(c, k, e) ==
    IF k \in DOMAIN c
    THEN [c EXCEPT ![k] = [value |-> e.value, expires_at |-> c[k].expires_at,
                           created_at |-> e.created_at]]
    ELSE [x \in (DOMAIN c) \cup {k} |-> IF x = k THEN e ELSE c[x]]

\* self._cache[key] = entry
Put(c, k, e) == [x \in (DOMAIN c) \cup {k} |-> IF x = k THEN e ELSE c[x]]

\* ------------------------------------------------------------------ lock
\* A lock that lets every thread in.
CanAcquireAlways(l, t) == TRUE

\* threading.RLock: free, or owned by one thread count times.
CanAcquire(l, t) == l.owner = NoThread \/ l.owner = t

Acquired(l, t) == [owner |-> t, count |-> l.count + 1]

\* A release that leaves the lock with its owner.
ReleasedKeepsOwner(l) == [owner |-> l.owner, count |-> l.count - 1]

\* Leaving the with block: RLock.release()
Released(l) == IF l.count = 1
               THEN [owner |-> NoThread, count |-> 0]
               ELSE [owner |-> l.owner, count |-> l.count - 1]

\* ------------------------------------------------------------- __init__
Init ==
    /\ cache = [x \in {} |-> PyNone]
    /\ lock = [owner |-> NoThread, count |-> 0]
    /\ clock = 0
    /\ pc = [t \in Threads |-> "idle"]
    /\ op = [t \in Threads |-> "none"]
    /\ key = [t \in Threads |-> NoKey]
    /\ val = [t \in Threads |-> PyNone]
    /\ ttl = [t \in Threads |-> 0]
    /\ exp = [t \in Threads |-> 0]
    /\ res = [t \in Threads |-> PyNone]
    /\ t1 = [t \in Threads |-> 0]
    /\ hist = [k \in Keys |-> NoHist]
    /\ seen = [t \in Threads |-> NoneSeen]
    /\ heap = [o \in Objects |-> "c0"]
    /\ web = WebIdle
    /\ peer = WebIdle

\* time.time() advances on its own.
Tick ==
    /\ clock < MaxClock
    /\ clock' = clock + 1
    /\ UNCHANGED <<cache, lock, pc, op, key, val, ttl, exp, res, t1, hist, seen,
                   heap, web, peer>>

\* A thread calls a method of the cache; which method and with which
\* arguments is an input nothing reads before the body runs, so it is drawn
\* when the body runs.
Call(t) ==
    /\ pc[t] = "idle"
    /\ pc' = [pc EXCEPT ![t] = "wait"]
    /\ op' = [op EXCEPT ![t] = "none"]
    /\ key' = [key EXCEPT ![t] = NoKey]
    /\ res' = [res EXCEPT ![t] = PyNone]
    /\ seen' = [seen EXCEPT ![t] = NoneSeen]
    /\ UNCHANGED <<cache, lock, clock, val, ttl, exp, t1, hist, heap, web, peer>>

\* with self._lock: (entry)
Acquire(t) ==
    /\ pc[t] = "wait"
    /\ CanAcquire(lock, t)
    /\ lock' = Acquired(lock, t)
    /\ pc' = [pc EXCEPT ![t] = "in"]
    /\ UNCHANGED <<cache, clock, op, key, val, ttl, exp, res, t1, hist, seen,
                   heap, web, peer>>

\* Leaving the with block and returning r to the caller of method o.
Return(t, o, k, r) ==
    /\ lock' = Released(lock)
    /\ pc' = [pc EXCEPT ![t] = "idle"]
    /\ op' = [op EXCEPT ![t] = o]
    /\ key' = [key EXCEPT ![t] = k]
    /\ res' = [res EXCEPT ![t] = r]
    /\ val' = [val EXCEPT ![t] = PyNone]
    /\ ttl' = [ttl EXCEPT ![t] = 0]
    /\ exp' = [exp EXCEPT ![t] = 0]
    /\ t1' = [t1 EXCEPT ![t] = 0]
    /\ seen' = [seen EXCEPT ![t] = Seen]
    /\ UNCHANGED <<clock, heap, web, peer>>

\* hist once an operation other than set has run on the keys ks.
Touched(ks) ==
    [k \in Keys |-> IF k \in ks
                    THEN [NoHist EXCEPT !.trues = hist[k].trues]
                    ELSE hist[k]]

\* ------------------------------------------------------------------- get
\* A get that takes no entry for expired.
GetExpiredNever(now, e) == FALSE

\* A get that takes now = expires_at for expired.
GetExpiredGe(now, e) == now >= e.expires_at

\* current_time > entry['expires_at']
GetExpired(now, e) == now > e.expires_at

\* A get that evicts whatever entry it finds.
GetCacheDrop(c, k, now) == IF k \in DOMAIN c THEN Del(c, k) ELSE c

\* The store get leaves behind.
GetCache(c, k, now) ==
    IF k \notin DOMAIN c THEN c
    ELSE IF GetExpired(now, c[k]) THEN Del(c, k)
    ELSE c

\* The object get returns.
GetResult(c, k, now) ==
    IF k \notin DOMAIN c THEN PyNone
    ELSE IF GetExpired(now, c[k]) THEN PyNone
    ELSE c[k].value

Get(t, k) ==
    /\ pc[t] = "in"
    /\ cache' = GetCache(cache, k, clock)
    /\ hist' = Touched({k})
    /\ Return(t, "get", k, GetResult(cache, k, clock))

\* ------------------------------------------------------------------- set
\* An expiry that takes a negative ttl for 0.
ExpiresAtClamped(now, l) == now + Seconds(IF l < 0 THEN 0 ELSE l)

\* expires_at = time.time() + ttl
ExpiresAt(now, l) == now + Seconds(l)

SetTime(t, k, v, l) ==
    /\ pc[t] = "in"
    /\ op' = [op EXCEPT ![t] = "set"]
    /\ key' = [key EXCEPT ![t] = k]
    /\ val' = [val EXCEPT ![t] = v]
    /\ ttl' = [ttl EXCEPT ![t] = l]
    /\ exp' = [exp EXCEPT ![t] = ExpiresAt(clock, l)]
    /\ t1' = [t1 EXCEPT ![t] = clock]
    /\ pc' = [pc EXCEPT ![t] = "set2"]
    /\ UNCHANGED <<cache, lock, clock, res, hist, seen, heap, web, peer>>

\* The dict literal of lines 56-60; time.time() is read again for created_at.
NewEntry(v, e, now) == [value |-> v, expires_at |-> e, created_at |-> now]

SetStore(t) ==
    /\ pc[t] = "set2"
    /\ cache' = Put(cache, key[t], NewEntry(val[t], exp[t], clock))
    /\ hist' = [hist EXCEPT ![key[t]] =
                  [fresh |-> TRUE, value |-> val[t], ttl |-> ttl[t], at |-> t1[t],
                   prevShort |-> /\ key[t] \in DOMAIN cache
                                 /\ cache[key[t]].expires_at <= t1[t] + Seconds(1),
                   trues |-> 0]]
    /\ Return(t, "set", key[t], PyNone)

\* ---------------------------------------------------------------- delete
DeleteResult(c, k) == k \in DOMAIN c

\* A delete that reports the key but leaves it stored.
DeleteCacheKeep(c, k) == c

DeleteCache(c, k) == IF k \in DOMAIN c THEN Del(c, k) ELSE c

Delete(t, k) ==
    /\ pc[t] = "in"
    /\ cache' = DeleteCache(cache, k)
    /\ hist' = Touched({k})
    /\ Return(t, "delete", k, PyBool(DeleteResult(cache, k)))

\* delete, statement by statement: the test of line 74, which returns False
\* at once when the key is not stored, ...
DeleteCheck(t, k) ==
    /\ pc[t] = "in"
    /\ IF DeleteResult(cache, k)
       THEN /\ pc' = [pc EXCEPT ![t] = "del2"]
            /\ op' = [op EXCEPT ![t] = "delete"]
            /\ key' = [key EXCEPT ![t] = k]
            /\ UNCHANGED <<cache, lock, clock, val, ttl, exp, res, t1, hist, seen,
                           heap, web, peer>>
       ELSE /\ cache' = cache
            /\ hist' = Touched({k})
            /\ Return(t, "delete", k, PyBool(FALSE))

\* del self._cache[key] raises KeyError when the key is not stored.
PyKeyError == [kind |-> "KeyError", s |-> "", n |-> 0, b |-> FALSE, d |-> NoStats]

\* ... and the del of line 75 with the return of line 77.  The exception
\* leaves the with block, which releases the lock.
DeleteRemove(t) ==
    /\ pc[t] = "del2"
    /\ IF key[t] \in DOMAIN cache
       THEN /\ cache' = DeleteCache(cache, key[t])
            /\ hist' = [Touched({key[t]}) EXCEPT ![key[t]].trues = @ + 1]
            /\ Return(t, "delete", key[t], PyBool(TRUE))
       ELSE /\ cache' = cache
            /\ hist' = Touched({key[t]})
            /\ Return(t, "delete", key[t], PyKeyError)

\* ----------------------------------------------------------------- clear
\* A clear that removes nothing.
ClearedNothing(c) == c

\* self._cache.clear()
Cleared(c) == [x \in {} |-> PyNone]

Clear(t) ==
    /\ pc[t] = "in"
    /\ cache' = Cleared(cache)
    /\ hist' = Touched(Keys)
    /\ Return(t, "clear", NoKey, PyNone)

\* ------------------------------------------------------- cleanup_expired
\* A sweep that takes now = expires_at for expired.
SweepExpiredGe(now, e) == now >= e.expires_at

\* current_time > entry['expires_at'], in the list comprehension
SweepExpired(now, e) == now > e.expires_at

\* expired_keys
ExpiredKeys(c, now) == {k \in DOMAIN c : SweepExpired(now, c[k])}

\* The store once every key of expired_keys is deleted.
Swept(c, now) == [x \in (DOMAIN c) \ ExpiredKeys(c, now) |-> c[x]]

CleanupExpired(t) ==
    /\ pc[t] = "in"
    /\ cache' = Swept(cache, clock)
    /\ hist' = Touched(Keys)
    /\ Return(t, "cleanup_expired", NoKey,
              PyInt(Cardinality(ExpiredKeys(cache, clock))))

\* cleanup_expired, statement by statement: the clock reading and the list
\* comprehension of lines 95-99; val holds the local expired_keys ...
CleanupScan(t) ==
    /\ pc[t] = "in"
    /\ pc' = [pc EXCEPT ![t] = "cln2"]
    /\ op' = [op EXCEPT ![t] = "cleanup_expired"]
    /\ val' = [val EXCEPT ![t] =
                 PyDict([NoStats EXCEPT !.cache_keys = ExpiredKeys(cache, clock)])]
    /\ UNCHANGED <<cache, lock, clock, key, ttl, exp, res, t1, hist, seen, heap, web, peer>>

\* ... and the loop of lines 101-102 with the return of line 107.  del raises
\* KeyError at the first key that is no longer stored, the keys before it
\* in the list being deleted already.
CleanupRemove(t) ==
    /\ pc[t] = "cln2"
    /\ LET expired_keys == val[t].d.cache_keys
       IN  IF expired_keys \subseteq DOMAIN cache
           THEN /\ cache' = [x \in (DOMAIN cache) \ expired_keys |-> cache[x]]
                /\ hist' = Touched(expired_keys)
                /\ Return(t, "cleanup_expired", NoKey,
                          PyInt(Cardinality(expired_keys)))
           ELSE \E deleted \in SUBSET (expired_keys \cap DOMAIN cache) :
                   /\ cache' = [x \in (DOMAIN cache) \ deleted |-> cache[x]]
                   /\ hist' = Touched(deleted)
                   /\ Return(t, "cleanup_expired", NoKey, PyKeyError)

\* ------------------------------------------------------------- get_stats
\* Statistics that take now = expires_at for expired.
StatsExpiredGe(now, e) == now >= e.expires_at

\* current_time > entry['expires_at'], in the generator of expired_entries
StatsExpired(now, e) == now > e.expires_at

\* cache_keys is a list in the source; its order is not modelled.
Stats(c, now) ==
    LET total_entries == Cardinality(DOMAIN c)
        expired_entries == Cardinality({k \in DOMAIN c : StatsExpired(now, c[k])})
    IN  [total_entries |-> total_entries,
         active_entries |-> total_entries - expired_entries,
         expired_entries |-> expired_entries,
         cache_keys |-> DOMAIN c]

GetStats(t) ==
    /\ pc[t] = "in"
    /\ Return(t, "get_stats", NoKey, PyDict(Stats(cache, clock)))
    /\ UNCHANGED <<cache, hist>>

\* --------------------------------------------------------------- has_key
\* x is not None
IsNotNone(x) == x # PyNone

\* return self.get(key) is not None: the body of get runs, lock and all.
HasKey(t, k) ==
    /\ pc[t] = "in"
    /\ cache' = GetCache(cache, k, clock)
    /\ hist' = Touched({k})
    /\ Return(t, "has_key", k, PyBool(IsNotNone(GetResult(cache, k, clock))))

\* ----------------------------------------------------- get_remaining_ttl
\* current_time > entry['expires_at']
TtlExpired(now, e) == now > e.expires_at

\* A remaining ttl that reports an expired entry as absent.
RemainingTtlAbsent(c, k, now) ==
    IF k \notin DOMAIN c THEN PyNone
    ELSE IF now > c[k].expires_at THEN PyNone
    ELSE PyInt(int(c[k].expires_at - now))

RemainingTtl(c, k, now) ==
    IF k \notin DOMAIN c THEN PyNone
    ELSE IF TtlExpired(now, c[k]) THEN PyInt(0)
    ELSE PyInt(int(c[k].expires_at - now))

GetRemainingTtl(t, k) ==
    /\ pc[t] = "in"
    /\ hist' = Touched({k})
    /\ Return(t, "get_remaining_ttl", k, RemainingTtl(cache, k, clock))
    /\ UNCHANGED cache

\* --------------------------------------------------- caller-held objects
\* Between two calls, a caller changes the object o it holds a reference to,
\* as in value['status'] = ... on a dict it passed to set or got from get.
Mutate(t, o, c) ==
    /\ pc[t] = "idle"
    /\ c # heap[o]
    /\ heap' = [heap EXCEPT ![o] = c]
    /\ UNCHANGED <<cache, lock, clock, pc, op, key, val, ttl, exp, res, t1, hist,
                   seen, web, peer>>

\* ------------------------------------------------------ app.py: handlers
\* ttl=900 of the handler's set
CacheTtl == 900

\* The request bodies and query strings of the model.
Cities == {<<>>, <<" ">>, <<"A">>, <<"a", " ">>, <<"a", "b">>, <<"A", "b">>,
           <<" ", "a", "b">>, <<"a", "b", "_", "c">>}
UnitsGiven == {Metric, <<"c", "_">> \o Metric}
Bodies == [city : {JAbsent, JNumber} \cup {JStr(c) : c \in Cities},
           units : {JAbsent} \cup {JStr(u) : u \in UnitsGiven}]
PathCities == {<<"a", "b">>, <<"A", "b">>, <<"a", "b", "_", "c">>}

\* request.json.get('units', 'metric') and request.args.get('units', 'metric')
UnitsOf(b) == IF b.units.kind = "absent" THEN Metric ELSE b.units.chars

\* f"{city.lower()}_{units}"
CacheKey(city, units) == Lower(city) \o <<"_">> \o units

\* A test of the cached value that never finds one.
TruthyNever(x) == FALSE

\* if cached_data: None is false, a dict with members is true.
Truthy(x) == x # PyNone

\* A test of the upstream result that never sees an error.
IsErrorNever(x) == FALSE

\* weather_data['status'] == 'error'
IsError(x) == x.status = "error"

\* What get_weather_by_city may return: the weather, or a dict of status
\* 'error' (city not found, bad key, timeout, no connection); it never raises.
Upstream(city, units, now) == {Weather(city, units, now), ErrorBody(NotFoundMsg)}

\* return jsonify(body), status: the request is over, its locals are gone.
Respond(status, body) ==
    web' = [web EXCEPT !.pc = "idle", !.weather_data = PyNone, !.exp = 0,
                       !.status = status, !.resp = body]

Received(route, b) ==
    [WebIdle EXCEPT !.route = route, !.body = b]

WebFrame == UNCHANGED <<pc, op, key, val, ttl, exp, res, t1, hist, seen, heap,
                        peer>>

\* time.time() advances on its own: by the handler's ttl, to the last instant
\* an entry written at the start is live, and then by a tick, past it.
WebTick(d) ==
    /\ d = 1 => clock = Seconds(CacheTtl)
    /\ d # 1 => clock < Seconds(CacheTtl)
    /\ clock' = clock + d
    /\ UNCHANGED <<cache, lock, web>>
    /\ WebFrame

\* POST /api/weather, lines 53-72: validation and the cache key.  A city
\* that is no string has no strip(): the except clause answers 500.
PostWeather(b) ==
    /\ web.pc = "idle"
    /\ IF b.city.kind = "absent"
       THEN web' = [Received("post", b) EXCEPT !.status = 400,
                                               !.resp = ErrorBody(RequiredMsg)]
       ELSE IF b.city.kind # "str"
       THEN web' = [Received("post", b) EXCEPT !.status = 500,
                                               !.resp = ErrorBody(InternalMsg)]
       ELSE LET city == Strip(b.city.chars)
                units == UnitsOf(b)
            IN  IF city = <<>> \/ Len(city) < 2
                THEN web' = [Received("post", b) EXCEPT
                               !.city = city, !.units = units, !.status = 400,
                               !.resp = ErrorBody(InvalidMsg)]
                ELSE web' = [Received("post", b) EXCEPT
                               !.pc = "get", !.city = city, !.units = units,
                               !.cache_key = CacheKey(city, units)]
    /\ UNCHANGED <<cache, lock, clock>>
    /\ WebFrame

\* lines 73-77: cache_service.get(cache_key), and the answer on a hit.
PostGet ==
    /\ web.pc = "get"
    /\ CanAcquire(lock, WebThread)
    /\ cache' = GetCache(cache, web.cache_key, clock)
    /\ LET cached_data == GetResult(cache, web.cache_key, clock)
       IN  IF Truthy(cached_data)
           THEN web' = [web EXCEPT !.pc = "idle", !.cached_data = cached_data,
                                   !.gets = @ + 1, !.status = 200,
                                   !.resp = cached_data]
           ELSE web' = [web EXCEPT !.pc = "fetch", !.cached_data = cached_data,
                                   !.gets = @ + 1]
    /\ UNCHANGED <<lock, clock>>
    /\ WebFrame

\* lines 80-83: the upstream call, and the answer when it reports an error.
PostFetch ==
    /\ web.pc = "fetch"
    /\ \E weather_data \in Upstream(web.city, web.units, clock) :
         IF IsError(weather_data)
         THEN web' = [web EXCEPT !.pc = "idle", !.calls = @ + 1, !.status = 404,
                                 !.resp = weather_data]
         ELSE web' = [web EXCEPT !.pc = "set", !.calls = @ + 1,
                                 !.weather_data = weather_data]
    /\ UNCHANGED <<cache, lock, clock>>
    /\ WebFrame

\* line 86: cache_service.set(cache_key, weather_data, ttl=900), up to its
\* first reading of the clock ...
PostSetTime ==
    /\ web.pc = "set"
    /\ CanAcquire(lock, WebThread)
    /\ lock' = Acquired(lock, WebThread)
    /\ web' = [web EXCEPT !.pc = "set2", !.exp = ExpiresAt(clock, CacheTtl)]
    /\ UNCHANGED <<cache, clock>>
    /\ WebFrame

\* ... and from its second reading on, with the answer of line 89.
PostSetStore ==
    /\ web.pc = "set2"
    /\ cache' = Put(cache, web.cache_key,
                    NewEntry(web.weather_data, web.exp, clock))
    /\ lock' = Released(lock)
    /\ web' = [web EXCEPT !.pc = "idle", !.weather_data = PyNone, !.exp = 0,
                          !.sets = @ + 1, !.status = 200,
                          !.resp = web.weather_data]
    /\ UNCHANGED clock
    /\ WebFrame

\* GET /api/weather/<city>: the city of the path is not stripped.
GetCachedWeather(b) ==
    /\ web.pc = "idle"
    /\ CanAcquire(lock, WebThread)
    /\ LET city == b.city.chars
           units == UnitsOf(b)
           cache_key == CacheKey(city, units)
           cached_data == GetResult(cache, cache_key, clock)
       IN  /\ cache' = GetCache(cache, cache_key, clock)
           /\ web' = [Received("cached", b) EXCEPT
                        !.city = city, !.units = units, !.cache_key = cache_key,
                        !.cached_data = cached_data, !.gets = 1,
                        !.status = IF Truthy(cached_data) THEN 200 ELSE 404,
                        !.resp = IF Truthy(cached_data) THEN cached_data
                                 ELSE ErrorBody(NoCachedMsg)]
    /\ UNCHANGED <<lock, clock>>
    /\ WebFrame

\* ------------------------------------- app.py: a second, concurrent request
\* Flask serves requests on several threads: another POST /api/weather runs
\* the same handler on the thread PeerThread, with its own locals in peer.
PeerThread == "T2"

PeerFrame == UNCHANGED <<pc, op, key, val, ttl, exp, res, t1, hist, seen, heap,
                         web>>

\* lines 53-72: validation and the cache key.  A city
\* that is no string has no strip(): the except clause answers 500.
PeerWeather(b) ==
    /\ peer.pc = "idle"
    /\ IF b.city.kind = "absent"
       THEN peer' = [Received("post", b) EXCEPT !.status = 400,
                                               !.resp = ErrorBody(RequiredMsg)]
       ELSE IF b.city.kind # "str"
       THEN peer' = [Received("post", b) EXCEPT !.status = 500,
                                               !.resp = ErrorBody(InternalMsg)]
       ELSE LET city == Strip(b.city.chars)
                units == UnitsOf(b)
            IN  IF city = <<>> \/ Len(city) < 2
                THEN peer' = [Received("post", b) EXCEPT
                               !.city = city, !.units = units, !.status = 400,
                               !.resp = ErrorBody(InvalidMsg)]
                ELSE peer' = [Received("post", b) EXCEPT
                               !.pc = "get", !.city = city, !.units = units,
                               !.cache_key = CacheKey(city, units)]
    /\ UNCHANGED <<cache, lock, clock>>
    /\ PeerFrame

\* lines 73-77: cache_service.get(cache_key), and the answer on a hit.
PeerGet ==
    /\ peer.pc = "get"
    /\ CanAcquire(lock, PeerThread)
    /\ cache' = GetCache(cache, peer.cache_key, clock)
    /\ LET cached_data == GetResult(cache, peer.cache_key, clock)
       IN  IF Truthy(cached_data)
           THEN peer' = [peer EXCEPT !.pc = "idle", !.cached_data = cached_data,
                                   !.gets = @ + 1, !.status = 200,
                                   !.resp = cached_data]
           ELSE peer' = [peer EXCEPT !.pc = "fetch", !.cached_data = cached_data,
                                   !.gets = @ + 1]
    /\ UNCHANGED <<lock, clock>>
    /\ PeerFrame

\* lines 80-83: the upstream call, and the answer when it reports an error.
PeerFetch ==
    /\ peer.pc = "fetch"
    /\ \E weather_data \in Upstream(peer.city, peer.units, clock) :
         IF IsError(weather_data)
         THEN peer' = [peer EXCEPT !.pc = "idle", !.calls = @ + 1, !.status = 404,
                                 !.resp = weather_data]
         ELSE peer' = [peer EXCEPT !.pc = "set", !.calls = @ + 1,
                                 !.weather_data = weather_data]
    /\ UNCHANGED <<cache, lock, clock>>
    /\ PeerFrame

\* line 86: cache_service.set(cache_key, weather_data, ttl=900), up to its
\* first reading of the clock ...
PeerSetTime ==
    /\ peer.pc = "set"
    /\ CanAcquire(lock, PeerThread)
    /\ lock' = Acquired(lock, PeerThread)
    /\ peer' = [peer EXCEPT !.pc = "set2", !.exp = ExpiresAt(clock, CacheTtl)]
    /\ UNCHANGED <<cache, clock>>
    /\ PeerFrame

\* ... and from its second reading on, with the answer of line 89.
PeerSetStore ==
    /\ peer.pc = "set2"
    /\ cache' = Put(cache, peer.cache_key,
                    NewEntry(peer.weather_data, peer.exp, clock))
    /\ lock' = Released(lock)
    /\ peer' = [peer EXCEPT !.pc = "idle", !.weather_data = PyNone, !.exp = 0,
                          !.sets = @ + 1, !.status = 200,
                          !.resp = peer.weather_data]
    /\ UNCHANGED clock
    /\ PeerFrame

\* ------------------------------------------------------- specifications
\* One thread using every method of the cache.
Step(t) ==
    \/ Call(t)
    \/ Acquire(t)
    \/ \E k \in Keys : Get(t, k)
    \/ \E k \in Keys, v \in Values, l \in TTLs : SetTime(t, k, v, l)
    \/ SetStore(t)
    \/ \E k \in Keys : Delete(t, k)
    \/ Clear(t)
    \/ CleanupExpired(t)
    \/ GetStats(t)
    \/ \E k \in Keys : HasKey(t, k)
    \/ \E k \in Keys : GetRemainingTtl(t, k)

Next == Tick \/ Step("T1")

Spec == Init /\ [][Next]_vars

\* Every thread using every method of the cache, on one key.
ConcKeys == {"k1"}
ConcValues == {PyStr("v1"), PyStr("v2")}
ConcTTLs == {1}

StepConc(t) ==
    \/ Call(t)
    \/ Acquire(t)
    \/ \E k \in ConcKeys : Get(t, k)
    \/ \E k \in ConcKeys, v \in ConcValues, l \in ConcTTLs : SetTime(t, k, v, l)
    \/ SetStore(t)
    \/ \E k \in ConcKeys : Delete(t, k)
    \/ Clear(t)
    \/ CleanupExpired(t)
    \/ GetStats(t)
    \/ \E k \in ConcKeys : HasKey(t, k)
    \/ \E k \in ConcKeys : GetRemainingTtl(t, k)

NextConc == Tick \/ \E t \in Threads : StepConc(t)

SpecConc == Init /\ [][NextConc]_vars

\* Every thread setting and getting: two values on the key of ConcKeys, one
\* value on every other key.
SetsValues(k) == IF k \in ConcKeys THEN ConcValues ELSE {PyStr("v1")}

StepSets(t) ==
    \/ Call(t)
    \/ Acquire(t)
    \/ \E k \in Keys, l \in ConcTTLs : \E v \in SetsValues(k) : SetTime(t, k, v, l)
    \/ SetStore(t)
    \/ \E k \in Keys : Get(t, k)

NextSets == Tick \/ \E t \in Threads : StepSets(t)

SpecSets == Init /\ [][NextSets]_vars

\* Every thread setting, deleting and getting one key, delete statement by
\* statement.
StepDel(t) ==
    \/ Call(t)
    \/ Acquire(t)
    \/ \E k \in ConcKeys, v \in ConcValues, l \in ConcTTLs : SetTime(t, k, v, l)
    \/ SetStore(t)
    \/ \E k \in ConcKeys : DeleteCheck(t, k)
    \/ DeleteRemove(t)
    \/ \E k \in ConcKeys : Get(t, k)

NextDel == Tick \/ \E t \in Threads : StepDel(t)

SpecDel == Init /\ [][NextDel]_vars

\* The two weather routes of app.py, one request at a time.
NextWeb ==
    \/ \E d \in {1, Seconds(CacheTtl)} : WebTick(d)
    \/ \E b \in Bodies : PostWeather(b)
    \/ PostGet
    \/ PostFetch
    \/ PostSetTime
    \/ PostSetStore
    \/ \E c \in PathCities, u \in {JAbsent} \cup {JStr(x) : x \in UnitsGiven} :
         GetCachedWeather([city |-> JStr(c), units |-> u])

SpecWeb == Init /\ [][NextWeb]_vars

\* One thread setting and getting objects that their creator then changes.
OwnTTLs == {60}

StepOwn(t) ==
    \/ Call(t)
    \/ Acquire(t)
    \/ \E k \in Keys, v \in Refs, l \in OwnTTLs : SetTime(t, k, v, l)
    \/ SetStore(t)
    \/ \E k \in Keys : Get(t, k)

NextOwn ==
    \/ Tick
    \/ StepOwn("T1")
    \/ \E o \in Objects, c \in Contents : Mutate("T1", o, c)

SpecOwn == Init /\ [][NextOwn]_vars

\* Every thread setting, getting and sweeping, cleanup_expired statement by
\* statement.
StepSweep(t) ==
    \/ Call(t)
    \/ Acquire(t)
    \/ \E k \in Keys, l \in ConcTTLs : \E v \in SetsValues(k) : SetTime(t, k, v, l)
    \/ SetStore(t)
    \/ \E k \in Keys : Get(t, k)
    \/ CleanupScan(t)
    \/ CleanupRemove(t)

NextSweep == Tick \/ \E t \in Threads : StepSweep(t)

SpecSweep == Init /\ [][NextSweep]_vars

\* One thread setting with negative and positive ttls, and reading.
NegTTLs == {-1, 1}

StepNeg(t) ==
    \/ Call(t)
    \/ Acquire(t)
    \/ \E k \in Keys, v \in ConcValues, l \in NegTTLs : SetTime(t, k, v, l)
    \/ SetStore(t)
    \/ \E k \in Keys : Get(t, k)
    \/ \E k \in Keys : HasKey(t, k)
    \/ GetStats(t)

NextNeg == Tick \/ StepNeg("T1")

SpecNeg == Init /\ [][NextNeg]_vars

\* Two POST /api/weather requests at a time, for one city in either case
\* and for another.
RaceBodies == [city : {JStr(<<"a", "b">>), JStr(<<"A", "b">>),
                       JStr(<<"a", "b", "c">>)},
               units : {JAbsent}]

NextRace ==
    \/ \E d \in {1, Seconds(CacheTtl)} : WebTick(d)
    \/ \E b \in RaceBodies : PostWeather(b)
    \/ PostGet
    \/ PostFetch
    \/ PostSetTime
    \/ PostSetStore
    \/ \E b \in RaceBodies : PeerWeather(b)
    \/ PeerGet
    \/ PeerFetch
    \/ PeerSetTime
    \/ PeerSetStore

SpecRace == Init /\ [][NextRace]_vars

\* ------------------------------------------------------------- properties
\* Thread t completes method o in this step.
Done(t, o) == pc[t] \in {"in", "set2"} /\ pc'[t] = "idle" /\ op'[t] = o

\* Thread t has returned from method o called with key k.
Returned(t, o, k) == pc[t] = "idle" /\ op[t] = o /\ key[t] = k

\* The instant the entry written by the last set on k expires, from the
\* arguments of that call.
SetExpiry(k) == hist[k].at + Seconds(hist[k].ttl)

\* All entries but the one of k are the same before and after the step.
OthersKept(k) ==
    /\ (DOMAIN cache') \ {k} = (DOMAIN cache) \ {k}
    /\ \A x \in (DOMAIN cache) \ {k} : cache'[x] = cache[x]

\* C1: a get(key) issued after set(key, value, ttl), ttl > 0, before the
\* entry's expiry instant has passed and with no other operation on the key in
\* between, returns exactly the value that was set, and has_key(key) is true.
C1_GetAfterSet ==
    [][\A t \in Threads, k \in Keys :
         (hist[k].fresh /\ hist[k].ttl > 0 /\ clock <= SetExpiry(k)) =>
            /\ (Done(t, "get") /\ key'[t] = k) => res'[t] = hist[k].value
            /\ (Done(t, "has_key") /\ key'[t] = k) => res'[t] = PyBool(TRUE)]_vars

\* C2: get(key) returns absent exactly when the store holds no entry for key
\* or the entry's expires_at has passed; in the expired case that same call
\* removes the entry, and in the never-set case the store is left unchanged.
C2_GetAbsentIff ==
    [][\A t \in Threads, k \in Keys :
         (Done(t, "get") /\ key'[t] = k) =>
            /\ res'[t] = PyNone <=>
                 (k \notin DOMAIN cache \/ clock > cache[k].expires_at)
            /\ (k \in DOMAIN cache /\ clock > cache[k].expires_at) =>
                 (k \notin DOMAIN cache' /\ OthersKept(k))
            /\ k \notin DOMAIN cache => cache' = cache]_vars
\* C3, as claimed: delete(key) returns true if and only if a live (non-expired)
\* entry for key was stored, and in that case removes it.
C3_DeleteLiveOnly ==
    [][\A t \in Threads, k \in Keys :
         (Done(t, "delete") /\ key'[t] = k) =>
            /\ res'[t] = PyBool(k \in DOMAIN cache /\ clock <= cache[k].expires_at)
            /\ res'[t] = PyBool(TRUE) => k \notin DOMAIN cache']_vars

\* C3, amended: delete(key) returns true if and only if the store holds an
\* entry for key, expired or not; it always leaves the store without an entry
\* for key and with every other entry untouched; and only a set puts an entry
\* back, so for one set at most one delete returns true.
C3_DeleteStored ==
    [][\A t \in Threads, k \in Keys :
         /\ (Done(t, "delete") /\ key'[t] = k) =>
               /\ res'[t] = PyBool(k \in DOMAIN cache)
               /\ k \notin DOMAIN cache'
               /\ OthersKept(k)
         /\ (k \notin DOMAIN cache /\ k \in DOMAIN cache') =>
               \E u \in Threads : Done(u, "set") /\ key'[u] = k]_vars

\* A delete has returned true on a store whose only entry had expired, and
\* the key is gone.
C3_Witness ==
    \E t \in Threads, k \in Keys :
        /\ Returned(t, "delete", k)
        /\ res[t] = PyBool(TRUE)
        /\ seen[t] = [total |-> 1, expired |-> 1]
        /\ k \notin DOMAIN cache

\* C4: has_key(key) returns true exactly when the store holds an entry for key
\* whose expires_at has not passed, whatever value that entry holds; on an
\* expired entry it removes the entry just as get does.
C4_HasKeyLive ==
    [][\A t \in Threads, k \in Keys :
         (Done(t, "has_key") /\ key'[t] = k) =>
            /\ res'[t] = PyBool(k \in DOMAIN cache /\ clock <= cache[k].expires_at)
            /\ (k \in DOMAIN cache /\ clock > cache[k].expires_at) =>
                 (k \notin DOMAIN cache' /\ OthersKept(k))]_vars

\* C5: a set on a key fully replaces the entry: the store then holds for key
\* the entry made of the call's value, the call's instant plus its ttl, and the
\* instant of storing, nothing of a prior entry, every other entry as before;
\* and a get that follows returns that value until that expiry has passed,
\* whatever entry was stored before.
C5_SetReplaces ==
    [][\A t \in Threads :
         /\ Done(t, "set") =>
               /\ DOMAIN cache' = (DOMAIN cache) \cup {key[t]}
               /\ cache'[key[t]] = [value |-> val[t],
                                    expires_at |-> t1[t] + Seconds(ttl[t]),
                                    created_at |-> clock]
               /\ OthersKept(key[t])
         /\ \A k \in Keys :
               (Done(t, "get") /\ key'[t] = k /\ hist[k].fresh) =>
                  res'[t] = IF clock > SetExpiry(k) THEN PyNone ELSE hist[k].value]_vars

\* A set with a long ttl has replaced an entry that was due within a second,
\* more than a second has passed since, and the entry is still live.
C5_Witness ==
    \E k \in Keys :
        /\ hist[k].fresh /\ hist[k].prevShort /\ hist[k].ttl = 60
        /\ clock > hist[k].at + Seconds(1)
        /\ k \in DOMAIN cache
        /\ cache[k].value = hist[k].value
        /\ clock <= cache[k].expires_at

\* C6: cleanup_expired() removes exactly the entries whose expires_at has
\* passed as of the call, returns the number it removed, and leaves every
\* other entry stored, unchanged and retrievable by get.
C6_CleanupExact ==
    [][\A t \in Threads :
         Done(t, "cleanup_expired") =>
            LET gone == {k \in DOMAIN cache : clock > cache[k].expires_at}
            IN  /\ DOMAIN cache' = (DOMAIN cache) \ gone
                /\ res'[t] = PyInt(Cardinality(gone))
                /\ \A k \in (DOMAIN cache) \ gone :
                      /\ cache'[k] = cache[k]
                      /\ GetResult(cache', k, clock) = cache[k].value]_vars

\* A sweep of a store holding an expired and a live entry has returned 1 and
\* the live one is still stored.
C6_Witness ==
    \E t \in Threads :
        /\ Returned(t, "cleanup_expired", NoKey)
        /\ seen[t] = [total |-> 2, expired |-> 1]
        /\ res[t] = PyInt(1)
        /\ Cardinality(DOMAIN cache) = 1
        /\ \E k \in DOMAIN cache : clock <= cache[k].expires_at

\* C7: get_stats() reports total_entries as the number of stored entries,
\* expired ones included, expired_entries as the number of those with
\* now > expires_at, active_entries as the rest, and cache_keys as the stored
\* keys; after two distinct keys were set with long ttls it reports 2 and 2.
C7_StatsExact ==
    [][\A t \in Threads :
         Done(t, "get_stats") =>
            /\ res'[t] = PyDict(
                 [total_entries |-> Cardinality(DOMAIN cache),
                  active_entries |->
                      Cardinality({k \in DOMAIN cache : clock <= cache[k].expires_at}),
                  expired_entries |->
                      Cardinality({k \in DOMAIN cache : clock > cache[k].expires_at}),
                  cache_keys |-> DOMAIN cache])
            /\ (/\ Cardinality({k \in Keys : hist[k].fresh /\ hist[k].ttl = 60}) = 2
                /\ Cardinality(DOMAIN cache) = 2) =>
                  /\ res'[t].d.total_entries = 2
                  /\ res'[t].d.active_entries = 2]_vars

\* Statistics taken after two keys were set with long ttls.
C7_Witness ==
    \E t \in Threads :
        /\ Returned(t, "get_stats", NoKey)
        /\ res[t].d.total_entries = 2
        /\ res[t].d.active_entries = 2
        /\ Cardinality({k \in Keys : hist[k].fresh /\ hist[k].ttl = 60}) = 2

\* C8: get_remaining_ttl(key) returns absent if the store holds no entry for
\* key, and otherwise the whole seconds in max(0, expires_at - now): ttl - 1
\* or ttl within a second of set(key, v, ttl), and 0 for an entry that has
\* expired and is still stored.
C8_RemainingTtl ==
    [][\A t \in Threads, k \in Keys :
         (Done(t, "get_remaining_ttl") /\ key'[t] = k) =>
            IF k \notin DOMAIN cache THEN res'[t] = PyNone
            ELSE LET d == cache[k].expires_at - clock
                     m == IF d > 0 THEN d ELSE 0
                     n == res'[t].n
                 IN  /\ res'[t] = PyInt(n)
                     /\ n * TicksPerSec <= m
                     /\ m < (n + 1) * TicksPerSec
                     /\ clock > cache[k].expires_at => n = 0
                     /\ (hist[k].fresh /\ hist[k].ttl >= 1
                           /\ clock <= hist[k].at + Seconds(1)) =>
                          n \in {hist[k].ttl - 1, hist[k].ttl}]_vars

\* The remaining ttl of an expired entry that is still stored was asked: 0.
C8_Witness ==
    \E t \in Threads, k \in Keys :
        /\ Returned(t, "get_remaining_ttl", k)
        /\ k \in DOMAIN cache
        /\ clock > cache[k].expires_at
        /\ res[t] = PyInt(0)

\* C9: clear() leaves the store empty, and on an empty store get_stats()
\* reports total_entries = 0 and active_entries = 0 and get(key) is absent
\* for every key.
C9_ClearEmpties ==
    [][\A t \in Threads :
         /\ Done(t, "clear") => DOMAIN cache' = {}
         /\ (Done(t, "get_stats") /\ DOMAIN cache = {}) =>
               /\ res'[t].d.total_entries = 0
               /\ res'[t].d.active_entries = 0
         /\ (Done(t, "get") /\ DOMAIN cache = {}) => res'[t] = PyNone]_vars

\* A clear of a store holding a live and an expired entry has returned and
\* the store is empty.
C9_Witness ==
    \E t \in Threads :
        /\ Returned(t, "clear", NoKey)
        /\ seen[t] = [total |-> 2, expired |-> 1]
        /\ DOMAIN cache = {}
\* Thread t is inside the with block of a method.
InBody(t) == pc[t] \in {"in", "set2"}

\* C10: the cache operations are mutually exclusive over the whole store: no
\* two threads are inside a method body at once, the thread inside is the one
\* that owns the lock, and as long as a thread stays inside a body no step
\* changes the store or completes another thread's operation.
C10_MutualExclusion ==
    /\ [](\A t \in Threads, u \in Threads :
            /\ (InBody(t) /\ InBody(u)) => t = u
            /\ InBody(t) <=> lock.owner = t)
    /\ [][\A t \in Threads :
            (InBody(t) /\ pc'[t] = pc[t]) =>
               /\ cache' = cache
               /\ \A u \in Threads \ {t} : ~Done(u, op'[u])]_vars

\* One thread is between the two clock readings of set while another has
\* called a method and waits for the lock.
C10_Witness ==
    \E t \in Threads, u \in Threads :
        /\ t # u
        /\ pc[t] = "set2"
        /\ lock.owner = t
        /\ pc[u] = "wait"
\* C11: when two threads call set on one key concurrently, each set stores,
\* while it owns the lock and no other thread is inside a body, the entry made
\* of its own value and its own two clock readings, and leaves every entry
\* under another key as it was; so the stored entry is wholly that of the set
\* that entered the lock last, and a get that follows returns its value.
C11_ConcurrentSet ==
    [][\A t \in Threads :
         /\ Done(t, "set") =>
               /\ lock.owner = t
               /\ \A u \in Threads \ {t} : ~InBody(u)
               /\ cache'[key[t]] = [value |-> val[t],
                                    expires_at |-> t1[t] + Seconds(ttl[t]),
                                    created_at |-> clock]
               /\ hist'[key[t]].value = val[t]
               /\ OthersKept(key[t])
         /\ \A k \in Keys :
               (Done(t, "get") /\ key'[t] = k /\ hist[k].fresh
                  /\ clock <= SetExpiry(k)) =>
                     /\ res'[t] = hist[k].value
                     /\ res'[t] \in ConcValues]_vars

\* Both threads have returned from a set on the same key, the entry stored is
\* the one of the last of the two, and the other key still has its entry.
C11_Witness ==
    \E t \in Threads, u \in Threads :
        /\ t # u
        /\ Returned(t, "set", "k1")
        /\ Returned(u, "set", "k1")
        /\ hist["k1"].fresh
        /\ cache["k1"].value = hist["k1"].value
        /\ cache["k1"].expires_at = SetExpiry("k1")
        /\ "k2" \in DOMAIN cache
\* Thread t completes a delete in this step.
DoneDelete(t) == pc[t] \in {"in", "del2"} /\ pc'[t] = "idle" /\ op'[t] = "delete"

\* C12: delete's check-and-remove is atomic: a delete never fails, it returns
\* true exactly when the key is stored as it completes and then the key is
\* gone, between two sets of a key at most one delete returns true, and a
\* concurrent get returns the stored value or absent and never fails.
C12_DeleteAtomic ==
    /\ [](\A k \in Keys : hist[k].trues <= 1)
    /\ [][\A t \in Threads :
            /\ DoneDelete(t) =>
                  /\ res'[t] = PyBool(key'[t] \in DOMAIN cache)
                  /\ key'[t] \notin DOMAIN cache'
                  /\ lock.owner = t
            /\ (pc[t] = "del2" /\ pc'[t] = "del2") => cache' = cache
            /\ Done(t, "get") =>
                  \/ res'[t] = PyNone /\ key'[t] \notin DOMAIN cache'
                  \/ key'[t] \in DOMAIN cache /\ res'[t] = cache[key'[t]].value]_vars

\* Both threads have returned from a delete of the same key with no set in
\* between, one with True and the other with False.
C12_Witness ==
    \E t \in Threads, u \in Threads, k \in Keys :
        /\ Returned(t, "delete", k) /\ res[t] = PyBool(TRUE)
        /\ Returned(u, "delete", k) /\ res[u] = PyBool(FALSE)
        /\ hist[k].trues = 1
        /\ seen[u].total = 0

\* C13: in POST /api/weather the upstream is called only after the cache was
\* read, and when that read finds a payload the request ends at once with
\* status 200 and exactly that payload, having called no upstream and
\* written nothing to the cache.
C13_CacheFirst ==
    [][/\ web'.calls > web.calls => web.gets > 0
       /\ (/\ web.pc = "get"
           /\ web' # web
           /\ GetResult(cache, web.cache_key, clock) # PyNone)
          => /\ web'.pc = "idle"
             /\ web'.status = 200
             /\ web'.resp = cache[web.cache_key].value
             /\ web'.calls = 0
             /\ web'.sets = 0
             /\ cache' = cache]_vars

\* A POST request answered from the cache at the last instant its entry is
\* live, with the payload fetched when the clock started.
C13_Witness ==
    /\ web.pc = "idle"
    /\ web.route = "post"
    /\ web.status = 200
    /\ web.cached_data # PyNone
    /\ web.resp = web.cached_data
    /\ web.calls = 0
    /\ web.resp.at = 0
    /\ clock = Seconds(CacheTtl)

\* The step writes an entry: a key is stored that was not, or holds another
\* entry than before.
Writes ==
    \E k \in DOMAIN cache' : k \notin DOMAIN cache \/ cache'[k] # cache[k]

\* C14: the handler writes to the cache only in the set of a request that
\* missed the cache and then fetched a payload of status 'success', and the
\* entry written is that payload under the request's key, expiring 900
\* seconds after an instant between the fetch and the write; a request whose
\* upstream result has status 'error' ends with that result and HTTP 404,
\* having stored nothing; no stored payload ever has status 'error'.
C14_StoreOnlySuccess ==
    [][/\ \A k \in DOMAIN cache' : cache'[k].value.status = "success"
       /\ Writes
          => /\ web.pc = "set2"
             /\ web'.sets = web.sets + 1
             /\ web.cached_data = PyNone
             /\ web.calls = 1
             /\ web.weather_data.status = "success"
             /\ web'.resp = web.weather_data
             /\ web'.status = 200
             /\ cache' = Put(cache, web.cache_key, cache'[web.cache_key])
             /\ cache'[web.cache_key].value = web.weather_data
             /\ cache'[web.cache_key].expires_at - Seconds(900)
                  \in web.weather_data.at .. clock
       /\ web'.sets > web.sets => Writes
       /\ (web.pc = "fetch" /\ web'.pc = "idle")
          => /\ web'.resp.status = "error"
             /\ web'.status = 404
             /\ web'.sets = 0
             /\ cache' = cache]_vars

\* A POST request answered 404 with the upstream's error, its key not
\* stored, while the payload of an earlier request is.
C14_Witness ==
    /\ web.pc = "idle"
    /\ web.route = "post"
    /\ web.status = 404
    /\ web.resp.status = "error"
    /\ web.calls = 1
    /\ web.cache_key \notin DOMAIN cache
    /\ \E k \in DOMAIN cache : cache[k].value.status = "success"

\* C15: the entry a request uses is the one written for the same lowercased
\* city and the same units, and no other: for every stored entry, the
\* request's key is the entry's key exactly when the payload stored there
\* was fetched for the request's lowercased city and the request's units.
C15_KeyPerCityAndUnits ==
    \A k \in DOMAIN cache :
        web.cache_key # <<>>
        => ((k = web.cache_key)
            <=> (/\ cache[k].value.city = Lower(web.city)
                 /\ cache[k].value.units = web.units))

\* The POST body b has no city, or a city of fewer than 2 characters once
\* trimmed.
NoValidCity(b) ==
    \/ b.city.kind = "absent"
    \/ b.city.kind = "str" /\ Len(Strip(b.city.chars)) < 2

\* The request just received is answered 400 with an error body, the cache
\* neither read nor written and the upstream not called.
Rejected ==
    /\ web'.pc = "idle"
    /\ web'.status = 400
    /\ web'.resp.status = "error"
    /\ web'.gets = 0
    /\ web'.calls = 0
    /\ web'.sets = 0
    /\ cache' = cache

\* C16: a POST /api/weather whose body has no city, or a city that is empty
\* or shorter than 2 characters after trimming, is answered 400 with status
\* 'error' without any cache access or upstream call; with no city the
\* lowercased message contains 'city name is required', and with a city of
\* 1 character the message contains 'at least 2 characters'.
C16_RejectsBadCity ==
    [][(/\ web.pc = "idle"
        /\ web' # web
        /\ web'.route = "post"
        /\ NoValidCity(web'.body))
       => /\ Rejected
          /\ web'.body.city.kind = "absent"
             => Contains(LowerWords(web'.resp.message),
                         <<"city", "name", "is", "required">>)
          /\ (/\ web'.body.city.kind = "str"
              /\ Len(Strip(web'.body.city.chars)) = 1)
             => Contains(web'.resp.message,
                         <<"at", "least", "2", "characters">>)]_vars

\* C17: when a caller changes an object it passed to set or received from
\* get, what get returns for any key, read as the caller reads it, is the
\* same after the change as before it.
C17_StoreOwnsEntries ==
    [][heap' # heap
       => \A k \in Keys :
            Deref(heap', GetResult(cache', k, clock'))
              = Deref(heap, GetResult(cache, k, clock))]_vars

\* C18: every stored entry expires ttl seconds after its created_at, for one
\* of the ttls a set is called with, and for the ttl of the set call that
\* wrote it while that call is the last operation on its key.
C18_ExpiryFromCreation ==
    \A k \in DOMAIN cache :
        /\ \E l \in TTLs :
             cache[k].expires_at = cache[k].created_at + Seconds(l)
        /\ hist[k].fresh
           => cache[k].expires_at = cache[k].created_at + Seconds(hist[k].ttl)

\* The stored entries the strict predicate now > expires_at makes expired.
Expired == {k \in DOMAIN cache : clock > cache[k].expires_at}

\* C19: get, cleanup_expired, get_stats and get_remaining_ttl all treat a
\* stored entry as expired exactly when now > expires_at: get evicts it and
\* returns absent then, and otherwise keeps it and returns its value (so at
\* now = expires_at too); cleanup_expired removes and counts exactly those
\* entries; get_stats counts exactly those as expired and the rest as
\* active; get_remaining_ttl returns 0 for them and the whole seconds left
\* for the rest.
C19_SamePredicate ==
    [][\A t \in Threads :
         /\ (Done(t, "get") /\ key'[t] \in DOMAIN cache)
            => /\ key'[t] \in Expired
                  => (key'[t] \notin DOMAIN cache' /\ res'[t] = PyNone)
               /\ key'[t] \notin Expired
                  => (cache' = cache /\ res'[t] = cache[key'[t]].value)
         /\ Done(t, "cleanup_expired")
            => /\ DOMAIN cache' = (DOMAIN cache) \ Expired
               /\ res'[t] = PyInt(Cardinality(Expired))
         /\ Done(t, "get_stats")
            => /\ res'[t].d.expired_entries = Cardinality(Expired)
               /\ res'[t].d.active_entries = Cardinality((DOMAIN cache) \ Expired)
         /\ (Done(t, "get_remaining_ttl") /\ key'[t] \in DOMAIN cache)
            => /\ key'[t] \in Expired => res'[t] = PyInt(0)
               /\ key'[t] \notin Expired
                  => res'[t] = PyInt(int(cache[key'[t]].expires_at - clock))]_vars

\* get has returned the value of an entry at the very instant it expires.
C19_Witness ==
    \E t \in Threads, k \in Keys :
        /\ Returned(t, "get", k)
        /\ k \in DOMAIN cache
        /\ cache[k].expires_at = clock
        /\ res[t] = cache[k].value
        /\ res[t] # PyNone
        /\ seen[t].expired = 0

\* C20: get_stats() and get_remaining_ttl(key) leave the store as it was,
\* keys and entries, whether or not entries have expired, and so does
\* get(key) on an entry that has not expired.
C20_ReadOnly ==
    [][\A t \in Threads :
         /\ (Done(t, "get_stats") \/ Done(t, "get_remaining_ttl"))
            => cache' = cache
         /\ (/\ Done(t, "get")
             /\ key'[t] \in DOMAIN cache
             /\ clock <= cache[key'[t]].expires_at)
            => cache' = cache]_vars

\* get_stats has counted an expired entry among two, and both are still
\* stored.
C20_Witness ==
    \E t \in Threads :
        /\ Returned(t, "get_stats", NoKey)
        /\ res[t].d.total_entries = 2
        /\ res[t].d.expired_entries = 1
        /\ Cardinality(DOMAIN cache) = 2
        /\ Cardinality(Expired) = 1

\* Fair scheduling: a thread that can go on inside a body does, and a thread
\* that waits for a lock that is free again and again gets it.
FairConc ==
    \A t \in Threads : /\ SF_vars(Acquire(t))
                        /\ WF_vars(InBody(t) /\ StepConc(t))

SpecConcFair == SpecConc /\ FairConc

DoneSweep(t) == pc[t] = "cln2" /\ pc'[t] = "idle"

\* C22: with cleanup_expired running concurrently with get and set, the
\* sweep removes only entries that are expired when it removes them, returns
\* their number without failing, and leaves every other entry as it is, so
\* it never removes an entry a set has just written with a future expiry;
\* nothing changes the store between the sweep's scan and its removals; an
\* entry whose set was the last operation on its key, other than sweeps that
\* did not remove it, is stored unchanged as long as it has not expired, and
\* a get of a stored entry that has not expired returns its value.
C22_SweepLosesNothing ==
    /\ [](\A k \in Keys :
            (hist[k].fresh /\ clock <= SetExpiry(k))
            => /\ k \in DOMAIN cache
               /\ cache[k].value = hist[k].value
               /\ cache[k].expires_at = SetExpiry(k))
    /\ [][\A t \in Threads :
            /\ DoneSweep(t)
               => /\ \A k \in (DOMAIN cache) \ DOMAIN cache' :
                       clock > cache[k].expires_at
                  /\ \A k \in DOMAIN cache' :
                       k \in DOMAIN cache /\ cache'[k] = cache[k]
                  /\ res'[t] = PyInt(Cardinality((DOMAIN cache) \ DOMAIN cache'))
            /\ (pc[t] = "cln2" /\ pc'[t] = "cln2") => cache' = cache
            /\ (/\ Done(t, "get")
                /\ key'[t] \in DOMAIN cache
                /\ clock <= cache[key'[t]].expires_at)
               => res'[t] = cache[key'[t]].value]_vars

\* A sweep that found two entries has removed the expired one and kept the
\* other, which another thread's get then returned.
C22_Witness ==
    \E t \in Threads, u \in Threads, k \in Keys :
        /\ t # u
        /\ Returned(t, "cleanup_expired", NoKey)
        /\ res[t] = PyInt(1)
        /\ Returned(u, "get", k)
        /\ k \in DOMAIN cache
        /\ res[u] = cache[k].value
        /\ seen[t] = [total |-> 2, expired |-> 1]
        /\ Cardinality(DOMAIN cache) = 1
        /\ clock <= cache[k].expires_at

\* The last operation on k was a set with a negative ttl.
SetNegative(k) == hist[k].fresh /\ hist[k].ttl < 0

\* C23: set with a negative ttl returns as any set does and stores an entry
\* that is expired from the start: while that set is the last operation on
\* the key the entry is stored with now > expires_at, the next get(key)
\* returns absent and removes it, has_key(key) returns False, and get_stats
\* counts it among the stored and the expired entries.
C23_NegativeTtl ==
    /\ [](\A k \in Keys :
            SetNegative(k) => /\ k \in DOMAIN cache
                              /\ clock > cache[k].expires_at
                              /\ cache[k].value = hist[k].value)
    /\ [][\A t \in Threads :
            /\ (Done(t, "set") /\ ttl[t] < 0)
               => /\ res'[t] = PyNone
                  /\ hist'[key'[t]].fresh
                  /\ hist'[key'[t]].ttl = ttl[t]
                  /\ key'[t] \in DOMAIN cache'
            /\ (Done(t, "get") /\ SetNegative(key'[t]))
               => /\ res'[t] = PyNone
                  /\ key'[t] \notin DOMAIN cache'
            /\ (Done(t, "has_key") /\ SetNegative(key'[t]))
               => res'[t] = PyBool(FALSE)
            /\ Done(t, "get_stats")
               => /\ res'[t].d.expired_entries
                       >= Cardinality({k \in Keys : SetNegative(k)})
                  /\ {k \in Keys : SetNegative(k)} \subseteq res'[t].d.cache_keys]_vars

\* At the instant the clock started, get_stats has counted an entry as
\* expired: one that a set with a negative ttl has just stored.
C23_Witness ==
    \E t \in Threads, k \in Keys :
        /\ Returned(t, "get_stats", NoKey)
        /\ res[t].d.expired_entries = 1
        /\ res[t].d.total_entries = 1
        /\ SetNegative(k)
        /\ k \in DOMAIN cache
        /\ clock = 0

\* No live entry is stored for k: none at all, or one whose expires_at has
\* passed.
Dead(k) == k \notin DOMAIN cache \/ clock > cache[k].expires_at

\* C24: the clock never goes back, and once the entry of a key has expired
\* the key has no live entry, stored or not, in any later state until a set
\* on that key completes; as long as that is so every get(key) returns absent
\* and every has_key(key) returns False.
C24_ExpiryPermanent ==
    [][/\ clock' >= clock
       /\ \A k \in Keys :
            (Dead(k) /\ ~(\E t \in Threads : Done(t, "set") /\ key'[t] = k))
            => Dead(k)'
       /\ \A t \in Threads :
            /\ (Done(t, "get") /\ Dead(key'[t])) => res'[t] = PyNone
            /\ (Done(t, "has_key") /\ Dead(key'[t]))
               => res'[t] = PyBool(FALSE)]_vars

\* At the last instant of the clock has_key has returned False for one of
\* two expired entries, evicting it, and the other is still stored.
C24_Witness ==
    \E t \in Threads, k \in Keys :
        /\ Returned(t, "has_key", k)
        /\ res[t] = PyBool(FALSE)
        /\ seen[t] = [total |-> 2, expired |-> 2]
        /\ k \notin DOMAIN cache
        /\ Cardinality(DOMAIN cache) = 1
        /\ clock = MaxClock

\* The store holds an entry for key k that has not expired.
Live(k) == k \in DOMAIN cache /\ clock <= cache[k].expires_at

\* C25: whichever way concurrent POST /api/weather requests interleave, a
\* request starts its upstream fetch only while the store holds no live
\* entry for the request's cache key, so that once one request has cached a
\* result no concurrent request for the same key calls the upstream.
C25_NoFetchWhileCached ==
    [][/\ web'.calls > web.calls => ~Live(web.cache_key)
       /\ peer'.calls > peer.calls => ~Live(peer.cache_key)]_vars

====
